---- MODULE Spec2Model ----
(***************************************************************************)
(* A model of hyperspy/events.py: the Event callback registry and its      *)
(* trigger dispatch, the Events container and the EventSupressor, with     *)
(* their suppression scopes (the generator based context managers).        *)
(*                                                                         *)
(* Objects are named by strings.  An arity selector (a key of              *)
(* Event._connected) is an integer: `all' stands for the key 'all', the    *)
(* naturals are the integer keys.  A callback is recorded at the moment    *)
(* trigger calls it, with the arguments of that call.  A call that Python  *)
(* cannot bind to the callback's parameters raises TypeError; otherwise    *)
(* the body of a callback returns normally, and only the body of the       *)
(* reentrant callback "re" calls connect or disconnect on the event.       *)
(***************************************************************************)
EXTENDS Integers, Sequences, FiniteSets, TLC

\* ------------------------------------------------------------------ bounds
MaxPos == 3       \* positional arguments of one trigger call: 0..MaxPos
MaxConn == 3      \* subscriptions that the events hold together
MaxDepth == 2     \* nesting depth of the suppression scopes
MaxCms == 2       \* targets handed to the EventSupressor

\* ------------------------------------------------------- values of the model
all == -1                      \* the selector 'all'
Evts == {"e1", "e2"}
NoEvent == "-"
NoCallback == "-"
IntSelectors == 0..2
Selectors == {all} \cup IntSelectors

Range(s) == {s[i] : i \in DOMAIN s}
Min(a, b) == IF a < b THEN a ELSE b
EmptyMap == [x \in {} |-> 0]

\* The declared arguments of an Event: each entry is a bare name, or a
\* (name, default) pair.
Bare(n) == [name |-> n, pair |-> FALSE, default |-> 0]
Pair(n, d) == [name |-> n, pair |-> TRUE, default |-> d]
NoArguments == <<>>
ArgsAB == <<Bare("a"), Pair("b", 10)>>

\* The callbacks: what inspect.getargspec(f).args gives, and inspect.ismethod(f).
\* "m" is the bound method  def m(self, a, b)  of some object, "m1" the
\* bound method  def m1(self, a).
SpecArgs(f) ==
    CASE f = "f0" -> <<>>
      [] f = "fa" -> <<"a">>
      [] f = "fab" -> <<"a", "b">>
      [] f = "fxy" -> <<"x", "y">>
      [] f = "m" -> <<"self", "a", "b">>
      [] f = "m1" -> <<"self", "a">>
      [] OTHER -> <<>>
IsMethod(f) == f \in {"m", "m1"}
\* "fvar" is  def fvar(*args, **kwargs).
HasVarArgs(function) == function \in {"fvar", "fraise"}

\* f(*args, **kwargs) (lines 373 and 392): Python binds the call to the
\* parameters of f, none of which has a default, or raises TypeError.
Params(f) == IF IsMethod(f) THEN Tail(SpecArgs(f)) ELSE SpecArgs(f)
Accepts(f, args, kwargs) ==
    IF HasVarArgs(f) THEN TRUE
    ELSE /\ Len(args) <= Len(Params(f))
         /\ \A n \in DOMAIN kwargs :
              \E i \in (Len(args) + 1)..Len(Params(f)) : Params(f)[i] = n
         /\ \A i \in (Len(args) + 1)..Len(Params(f)) : Params(f)[i] \in DOMAIN kwargs

\* Iterating a Python string yields its characters.
Chars(s) ==
    CASE s = "self" -> <<"s", "e", "l", "f">>
      [] OTHER -> <<s>>

\* The keyword arguments a caller may pass, and the value passed under each name.
KwNames == {"a", "b", "x"}
KwVal(n) == CASE n = "a" -> 5 [] n = "b" -> 6 [] OTHER -> 7
Kwargs(S) == [n \in S |-> KwVal(n)]
Positional(k) == [i \in 1..k |-> i]

\* -------------------------------------------- Event._trigger_maker (169-209)
\* The generated  def trigger(self, a, b=10): return f(a=a, b=b)  : Python
\* binds the call to the declared names, or raises TypeError.
ArgNames(arguments) == [i \in 1..Len(arguments) |-> arguments[i].name]

\* A trigger that is not wrapped: the call goes through as it is made.
trigger_maker_unchecked(arguments, args, kwargs) ==
    [raised |-> FALSE, args |-> args, kwargs |-> kwargs]
trigger_maker(arguments, args, kwargs) ==
    LET names == ArgNames(arguments)
        n == Len(names)
        bound(i) == IF i <= Len(args) THEN args[i]
                    ELSE IF names[i] \in DOMAIN kwargs THEN kwargs[names[i]]
                    ELSE arguments[i].default
        bad == \/ Len(args) > n
               \/ \E k \in DOMAIN kwargs : k \notin Range(names)
               \/ \E i \in 1..Min(n, Len(args)) : names[i] \in DOMAIN kwargs
               \/ \E i \in (Len(args) + 1)..n :
                      names[i] \notin DOMAIN kwargs /\ ~arguments[i].pair
    IN  IF bad THEN [raised |-> TRUE, args |-> <<>>, kwargs |-> EmptyMap]
        ELSE [raised |-> FALSE, args |-> <<>>,
              kwargs |-> [k \in Range(names) |->
                            bound(CHOOSE i \in 1..n : names[i] = k)]]

\* -------------------------------------------- Event._trigger_nargs (349-373)
\* self.arguments[i] is the declared entry itself: a (name, default) tuple is
\* never a key of kwargs.
ArgKey(arg) == IF arg.pair THEN "(name, default)" ELSE arg.name

Without(kwargs, k) == [n \in (DOMAIN kwargs) \ {k} |-> kwargs[n]]

RECURSIVE FillDeclared(_, _, _, _, _)
FillDeclared(arguments, i, args, kwargs, nargs) ==
    IF Len(args) < nargs /\ i <= Len(arguments)
    THEN IF ArgKey(arguments[i]) \in DOMAIN kwargs
         THEN FillDeclared(arguments, i + 1,
                           Append(args, kwargs[ArgKey(arguments[i])]),
                           Without(kwargs, ArgKey(arguments[i])), nargs)
         ELSE FillDeclared(arguments, i + 1, args, kwargs, nargs)
    ELSE [args |-> args, kwargs |-> kwargs]

RECURSIVE Matches(_, _)
Matches(candidates, kwargs) ==
    IF candidates = <<>> THEN <<>>
    ELSE (IF Head(candidates) \in DOMAIN kwargs
          THEN <<kwargs[Head(candidates)]>> ELSE <<>>)
         \o Matches(Tail(candidates), kwargs)

Candidates(f, have) ==
    LET rest == SubSeq(SpecArgs(f), have + 1, Len(SpecArgs(f)))
    IN  IF IsMethod(f)
        THEN (IF rest = <<>> THEN [raised |-> TRUE, names |-> <<>>]
              ELSE [raised |-> FALSE, names |-> Chars(rest[Len(rest)])])
        ELSE [raised |-> FALSE, names |-> rest]

\* A resolution that hands over every positional argument it was given.
trigger_nargs_unsliced(arguments, f, args, kwargs, nargs) ==
    [raised |-> FALSE, args |-> args]
trigger_nargs(arguments, f, args, kwargs, nargs) ==
    IF Len(args) < nargs
    THEN LET d == IF arguments # NoArguments
                  THEN FillDeclared(arguments, 1, args, kwargs, nargs)
                  ELSE [args |-> args, kwargs |-> kwargs]
         IN  IF Len(d.args) < nargs
             THEN LET c == Candidates(f, Len(d.args))
                      matches == Matches(c.names, d.kwargs)
                      filled == d.args \o SubSeq(matches, 1,
                                    Min(nargs - Len(d.args), Len(matches)))
                  IN  IF c.raised THEN [raised |-> TRUE, args |-> <<>>]
                      ELSE [raised |-> FALSE,
                            args |-> SubSeq(filled, 1, Min(nargs, Len(filled)))]
             ELSE [raised |-> FALSE, args |-> SubSeq(d.args, 1, nargs)]
    ELSE [raised |-> FALSE, args |-> SubSeq(args, 1, nargs)]

\* ----------------------------------------------------------------- state
VARIABLES
    arguments,      \* Event._arguments of each event (<<>> when None)
    gl_f,           \* the module global f that _trigger_maker sets: the event
                    \* whose original trigger the generated wrappers call
    connected,      \* Event._connected: selector -> set of callbacks
    suppressFlag,   \* Event._suppress
    events,         \* Events._events: name -> event
    attrs,          \* the names in the __dict__ of the Events instance, beside _events
    cms,            \* EventSupressor._cms: the context managers, in order
    scopes,         \* the with-statements now open, innermost last
    trig,           \* the trigger call in flight
    calls,          \* the calls that trigger has made to callbacks, in order
    exc,            \* the exception now propagating ("" when none)
    last            \* the operation that led to this state

vars == <<arguments, gl_f, connected, suppressFlag, events, attrs, cms, scopes,
          trig, calls, exc, last>>

\* The two fields of the events that the scopes save and restore.
Store == [conn |-> connected, flag |-> suppressFlag]

\* ------------------------------------------------ Event.connect (294-328)
auto == all - 1                \* nargs='auto'
None == all - 2                \* nargs=None, and "no selector"
\* A test that takes every value for a callable.
Callable_anything(function) == TRUE
Callable(function) == function # "notcallable"

ResolveNargs(function, nargs) ==
    IF nargs = auto
    THEN (IF HasVarArgs(function) THEN all ELSE Len(SpecArgs(function)))
    ELSE IF nargs = None THEN 0 ELSE nargs

\* A connect that also registers the function under the default selector.
connect_also_default(conn, function, nargs) ==
    LET n == ResolveNargs(function, nargs)
    IN  [s \in (DOMAIN conn) \cup {n, all} |->
           (IF s \in DOMAIN conn THEN conn[s] ELSE {}) \cup {function}]
\* conn is one event's _connected.
connect(conn, function, nargs) ==
    LET n == ResolveNargs(function, nargs)
        c == IF n \in DOMAIN conn THEN conn ELSE conn @@ (n :> {})
    IN  [c EXCEPT ![n] = @ \cup {function}]

\* --------------------------------------------- Event.disconnect (330-347)
\* A disconnect that looks under the default selector only.
disconnect_default_only(conn, function) ==
    [s \in DOMAIN conn |-> IF s = all THEN conn[s] \ {function} ELSE conn[s]]
disconnect(conn, function) == [s \in DOMAIN conn |-> conn[s] \ {function}]

\* ---------------------------------------------- Event.connected (278-292)
connected_all(conn) == UNION {conn[s] : s \in DOMAIN conn}
connected_nargs(conn, nargs) == IF nargs \in DOMAIN conn THEN conn[nargs] ELSE {}

Subscriptions(conn) == {<<s, f>> \in Selectors \X connected_all(conn) :
                            s \in DOMAIN conn /\ f \in conn[s]}
SelectorsOf(conn, function) == {s \in DOMAIN conn : function \in conn[s]}

\* --------------------------------------------------- the context managers
\* A context manager is the generator that a suppress() or
\* suppress_callback() call returns.  It runs to its yield when entered
\* (st "entered"), and through its finally when exited (st "done"); what it
\* saved lives in its frame: old, found, olds.
NewCm(kind, e, f) ==
    [kind |-> kind, e |-> e, f |-> f, st |-> "fresh",
     old |-> FALSE, found |-> {}, olds |-> EmptyMap]
NoCm == NewCm("-", NoEvent, NoCallback)

\* An entry that saves the flag and does not set it.
Event_suppress_enter_unset(S, cm) ==
    [S |-> S, cm |-> [cm EXCEPT !.st = "entered", !.old = S.flag[cm.e]]]
\* Event.suppress (232-237)
Event_suppress_enter(S, cm) ==
    [S |-> [S EXCEPT !.flag[cm.e] = TRUE],
     cm |-> [cm EXCEPT !.st = "entered", !.old = S.flag[cm.e]]]

\* A finally clause that clears the flag instead of restoring the saved one.
Event_suppress_exit_clears(S, cm) == [S EXCEPT !.flag[cm.e] = FALSE]
Event_suppress_exit(S, cm) == [S EXCEPT !.flag[cm.e] = cm.old]

\* An entry that finds the selectors and leaves the callback connected.
suppress_callback_enter_keeps(S, cm) ==
    [S |-> S,
     cm |-> [cm EXCEPT !.st = "entered", !.found = SelectorsOf(S.conn[cm.e], cm.f)]]
\* Event.suppress_callback (262-276)
suppress_callback_enter(S, cm) ==
    LET found == SelectorsOf(S.conn[cm.e], cm.f)
    IN  [S |-> IF found # {}
               THEN [S EXCEPT !.conn[cm.e] = disconnect(@, cm.f)]
               ELSE S,
         cm |-> [cm EXCEPT !.st = "entered", !.found = found]]

RECURSIVE Reconnect(_, _, _)
Reconnect(conn, function, found) ==
    IF found = {} THEN conn
    ELSE LET nargs == CHOOSE s \in found : TRUE
         IN  Reconnect(connect(conn, function, nargs), function, found \ {nargs})

\* A finally clause that reconnects with connect's default selector.
suppress_callback_exit_default(S, cm) ==
    IF cm.found = {} THEN S
    ELSE [S EXCEPT !.conn[cm.e] = connect(@, cm.f, all)]
suppress_callback_exit(S, cm) ==
    [S EXCEPT !.conn[cm.e] = Reconnect(@, cm.f, cm.found)]

\* Events.suppress (41-50): vals is self._events.itervalues(), in its order.
RECURSIVE Events_suppress_loop(_, _, _)
Events_suppress_loop(vals, flag, old) ==
    IF vals = <<>> THEN [flag |-> flag, old |-> old]
    ELSE LET e == Head(vals)
             o == IF e \in DOMAIN old THEN [old EXCEPT ![e] = flag[e]]
                  ELSE old @@ (e :> flag[e])
         IN  Events_suppress_loop(Tail(vals), [flag EXCEPT ![e] = TRUE], o)

Events_suppress_enter(S, cm, vals) ==
    LET r == Events_suppress_loop(vals, S.flag, EmptyMap)
    IN  [S |-> [S EXCEPT !.flag = r.flag],
         cm |-> [cm EXCEPT !.st = "entered", !.olds = r.old]]

Events_suppress_exit(S, cm) ==
    [S EXCEPT !.flag = [e \in DOMAIN S.flag |->
                          IF e \in DOMAIN cm.olds THEN cm.olds[e] ELSE S.flag[e]]]

\* The values of a dict in one of the orders iteration may give them.
RECURSIVE Orders(_)
Orders(names) ==
    IF names = {} THEN {<<>>}
    ELSE UNION {{<<n>> \o o : o \in Orders(names \ {n})} : n \in names}
Itervalues(d) == {[i \in 1..Len(o) |-> d[o[i]]] : o \in Orders(DOMAIN d)}

\* cm.__enter__() and cm.__exit__(None, None, None) of contextlib's
\* generator context manager, for a fresh generator and an entered one.
EnterCm(S, cm, vals) ==
    CASE cm.kind = "ev" -> Event_suppress_enter(S, cm)
      [] cm.kind = "cb" -> suppress_callback_enter(S, cm)
      [] OTHER -> Events_suppress_enter(S, cm, vals)

ExitCm(S, cm) ==
    CASE cm.kind = "ev" -> Event_suppress_exit(S, cm)
      [] cm.kind = "cb" -> suppress_callback_exit(S, cm)
      [] OTHER -> Events_suppress_exit(S, cm)

\* ------------------------------------------------ EventSupressor (439-523)
\* What add() may be handed: an Event, the Events container, a callable, a
\* tuple or list of such values, or something else (an int).
TEvent(e) == [t |-> "Event", e |-> e, f |-> NoCallback, items |-> <<>>]
TEvents == [t |-> "Events", e |-> NoEvent, f |-> NoCallback, items |-> <<>>]
TCallable(f) == [t |-> "callable", e |-> NoEvent, f |-> f, items |-> <<>>]
TTuple(items) == [t |-> "tuple", e |-> NoEvent, f |-> NoCallback, items |-> items]
TOther == [t |-> "int", e |-> NoEvent, f |-> NoCallback, items |-> <<>>]

\* isinstance(x, collections.Iterable): Events defines __iter__, Event does not.
Iterable(x) == x.t \in {"tuple", "Events"}
\* len(x) of an iterable: Events defines no __len__, so len() raises TypeError.
LenRaises(x) == x.t = "Events"

\* _is_tuple_target (459-464): "T", "F", or "raise" (the TypeError of len()).
is_tuple_target(candidate) ==
    IF ~Iterable(candidate) THEN "F"
    ELSE IF LenRaises(candidate) THEN "raise"
    ELSE IF /\ Len(candidate.items) = 2
            /\ candidate.items[1].t \in {"Event", "Events"}
            /\ candidate.items[2].t = "callable"
         THEN "T" ELSE "F"

\* _is_target (466-469)
is_target(candidate) ==
    IF candidate.t \in {"Event", "Events"} THEN "T" ELSE is_tuple_target(candidate)

\* _add_single (444-457); vals is the container's iteration order.
add_single(list, target, vals) ==
    LET tt == is_tuple_target(target)
    IN  IF tt = "raise" THEN [raised |-> "TypeError", cms |-> list]
        ELSE IF tt = "T"
        THEN (IF target.items[1].t = "Event"
              THEN [raised |-> "",
                    cms |-> Append(list, NewCm("cb", target.items[1].e, target.items[2].f))]
              ELSE [raised |-> "",
                    cms |-> list \o [i \in 1..Len(vals) |->
                                       NewCm("cb", vals[i], target.items[2].f)]])
        ELSE [raised |-> "",
              cms |-> Append(list, NewCm(IF target.t = "Event" THEN "ev" ELSE "evs",
                                         target.e, NoCallback))]

\* add (483-486): "Remove useless layers of iterables".
RECURSIVE Unwrap(_)
Unwrap(x) ==
    IF ~Iterable(x) THEN [raised |-> "", x |-> x]
    ELSE IF LenRaises(x) THEN [raised |-> "TypeError", x |-> x]
    ELSE IF Len(x.items) = 1 THEN Unwrap(x.items[1])
    ELSE [raised |-> "", x |-> x]

\* add (493-495)
RECURSIVE AddEach(_, _, _)
AddEach(list, items, vals) ==
    IF items = <<>> THEN [raised |-> "", cms |-> list]
    ELSE LET it == is_target(Head(items))
         IN  IF it = "raise" THEN [raised |-> "TypeError", cms |-> list]
             ELSE IF it = "T"
             THEN LET r == add_single(list, Head(items), vals)
                  IN  IF r.raised # "" THEN r ELSE AddEach(r.cms, Tail(items), vals)
             ELSE AddEach(list, Tail(items), vals)

\* add (471-497), called as add(*to_suppress)
add(list, to_suppress, vals) ==
    LET u == Unwrap(TTuple(to_suppress))
        it == is_target(u.x)
    IN  IF u.raised # "" THEN [raised |-> u.raised, cms |-> list]
        ELSE IF it = "raise" THEN [raised |-> "TypeError", cms |-> list]
        ELSE IF it = "T" THEN add_single(list, u.x, vals)
        ELSE IF Iterable(u.x)
        THEN (IF Len(u.x.items) = 0 THEN [raised |-> "ValueError", cms |-> list]
              ELSE AddEach(list, u.x.items, vals))
        ELSE [raised |-> "ValueError", cms |-> list]

\* suppress (513-517): enter the context managers in order.  A generator that
\* is not fresh cannot be entered: RuntimeError("generator didn't yield"),
\* after running to its end if it was suspended at its yield.  log is the
\* local list cms: the positions of the ones entered, in the order of entry.
RECURSIVE Es_enter(_, _, _, _)
Es_enter(S, list, i, vals) ==
    IF i > Len(list)
    THEN [S |-> S, cms |-> list, n |-> Len(list), raised |-> "", log |-> <<>>]
    ELSE IF list[i].st = "fresh"
    THEN LET r == EnterCm(S, list[i], vals)
             rest == Es_enter(r.S, [list EXCEPT ![i] = r.cm], i + 1, vals)
         IN  [rest EXCEPT !.log = <<i>> \o @]
    ELSE [S |-> IF list[i].st = "entered" THEN ExitCm(S, list[i]) ELSE S,
          cms |-> [list EXCEPT ![i].st = "done"],
          n |-> i - 1, raised |-> "RuntimeError", log |-> <<>>]

\* An unwinding that exits the entered ones first to last.
RECURSIVE Es_exit_forward(_, _, _)
Es_exit_forward(S, list, n) ==
    IF n = 0 THEN [S |-> S, cms |-> list, log |-> <<>>]
    ELSE LET r == Es_exit_forward(S, list, n - 1)
         IN  IF list[n].st = "entered"
             THEN [S |-> ExitCm(r.S, list[n]),
                   cms |-> [r.cms EXCEPT ![n].st = "done"],
                   log |-> Append(r.log, n)]
             ELSE r
\* An unwinding that exits the last of the entered ones only.
Es_exit_last_only(S, list, n) ==
    IF n = 0 \/ list[n].st # "entered" THEN [S |-> S, cms |-> list, log |-> <<>>]
    ELSE [S |-> ExitCm(S, list[n]), cms |-> [list EXCEPT ![n].st = "done"],
          log |-> <<n>>]
\* suppress (519-523): exit the entered ones, last first.  log lists the
\* positions of the ones whose finally clause ran, in that order.
RECURSIVE Es_exit(_, _, _)
Es_exit(S, list, n) ==
    IF n = 0 THEN [S |-> S, cms |-> list, log |-> <<>>]
    ELSE IF list[n].st = "entered"
    THEN LET rest == Es_exit(ExitCm(S, list[n]), [list EXCEPT ![n].st = "done"], n - 1)
         IN  [rest EXCEPT !.log = <<n>> \o @]
    ELSE Es_exit(S, list, n - 1)

\* ---------------------------------------------------------- the operations
IdleTrig ==
    [st |-> "idle", on |-> NoEvent, disp |-> NoEvent, args |-> <<>>,
     kwargs |-> EmptyMap, keys |-> {}, cur |-> None, rem |-> {}, seen |-> {},
     used |-> 0, snap |-> EmptyMap, mut |-> FALSE, err |-> "",
     given |-> [args |-> <<>>, kwargs |-> EmptyMap]]

\* A frame of the stack of open with-statements: the context manager entered
\* (kind "cm"), or the number n of context managers that es.suppress() entered
\* (kind "es").  For the properties it also remembers the (event, callback)
\* pairs it suppresses, the flags and the selectors of those pairs at entry,
\* and which of the pairs the code inside it has connected or disconnected.
NoFrame == [kind |-> "-", cm |-> NoCm, n |-> 0, pairs |-> {},
            pre |-> [flag |-> EmptyMap, sel |-> EmptyMap], touched |-> {}]
Frame(kind, cm, n, pairs) ==
    [kind |-> kind, cm |-> cm, n |-> n, pairs |-> pairs,
     pre |-> [flag |-> suppressFlag,
              sel |-> [p \in pairs |-> SelectorsOf(connected[p[1]], p[2])]],
     touched |-> {}]
CmPairs(cm) == IF cm.kind = "cb" THEN {<<cm.e, cm.f>>} ELSE {}

\* The operation that led to a state, and for the operations that the
\* properties speak of, the connections and flags it started from.
NoStore == [conn |-> EmptyMap, flag |-> EmptyMap]
\* What an operation on the suppressor or on the container was given and
\* what it started from: the targets and the context managers of add, the
\* name, the registry and the ordinary attributes of an attribute access,
\* what the access returned, the variable that a copy was bound to, and
\* the context managers that es.suppress() entered and exited, in order.
NoArg == [to_suppress |-> <<>>, cms |-> <<>>, name |-> "", got |-> "",
          reg |-> EmptyMap, attrs |-> {}, copy |-> NoEvent,
          entered |-> <<>>, exited |-> <<>>]
Op(op, e, f, s, frame) ==
    [op |-> op, e |-> e, f |-> f, s |-> s, frame |-> frame, before |-> Store,
     arg |-> NoArg]
Other(op) ==
    [op |-> op, e |-> NoEvent, f |-> NoCallback, s |-> None, frame |-> NoFrame,
     before |-> NoStore, arg |-> NoArg]

Touch(e, f) ==
    [i \in DOMAIN scopes |->
       IF <<e, f>> \in scopes[i].pairs
       THEN [scopes[i] EXCEPT !.touched = @ \cup {<<e, f>>}]
       ELSE scopes[i]]

\* The subscriptions that all events hold together.
RECURSIVE Total(_)
Total(E) ==
    IF E = {} THEN 0
    ELSE LET e == CHOOSE x \in E : TRUE
         IN  Cardinality(Subscriptions(connected[e])) + Total(E \ {e})

Quiet == trig.st = "idle" /\ exc = ""

\* e.connect(function, nargs)
Connect(e, function, nargs) ==
    /\ Quiet
    /\ IF Callable(function)
       THEN /\ IF function \in connected_nargs(connected[e],
                                                ResolveNargs(function, nargs))
               THEN TRUE ELSE Total(Evts) < MaxConn
            /\ connected' = [connected EXCEPT ![e] = connect(@, function, nargs)]
            /\ scopes' = Touch(e, function)
            /\ exc' = exc
       ELSE /\ exc' = "TypeError"
            /\ UNCHANGED <<connected, scopes>>
    /\ last' = Op("connect", e, function, nargs, NoFrame)
    /\ UNCHANGED <<arguments, gl_f, suppressFlag, events, attrs, cms, trig, calls>>

\* e.disconnect(function)
Disconnect(e, function) ==
    /\ Quiet
    /\ connected' = [connected EXCEPT ![e] = disconnect(@, function)]
    /\ scopes' = Touch(e, function)
    /\ last' = Op("disconnect", e, function, None, NoFrame)
    /\ UNCHANGED <<arguments, gl_f, suppressFlag, events, attrs, cms, trig, calls, exc>>

\* e.trigger(*args, **kwargs), up to the copy of _connected (line 389).  An
\* event with declared arguments is called through its generated wrapper,
\* which calls the global f.
TriggerCall(e, args, kwargs) ==
    /\ Quiet
    /\ LET wrapped == arguments[e] # NoArguments
           w == IF wrapped THEN trigger_maker(arguments[e], args, kwargs)
                ELSE [raised |-> FALSE, args |-> args, kwargs |-> kwargs]
           d == IF wrapped THEN gl_f ELSE e
           t == [IdleTrig EXCEPT !.on = e, !.disp = d, !.args = w.args,
                                 !.kwargs = w.kwargs,
                                 !.given = [args |-> args, kwargs |-> kwargs]]
       IN  trig' = IF w.raised THEN [t EXCEPT !.st = "raised", !.err = "TypeError"]
                   ELSE IF suppressFlag[d] THEN [t EXCEPT !.st = "done"]
                   ELSE [t EXCEPT !.st = "run", !.keys = DOMAIN connected[d],
                                  !.snap = connected[d]]
    /\ calls' = <<>>
    /\ last' = Other("trigger")
    /\ UNCHANGED <<arguments, gl_f, connected, suppressFlag, events, attrs, cms, scopes, exc>>

\* The set that the loop of the current selector runs over: the connected set
\* itself for 'all' (line 391), a copy of it for an integer (line 399).
Live == connected[trig.disp][trig.cur]
LoopOver ==
    IF trig.cur = None THEN {}
    ELSE IF trig.cur = all THEN Live \ trig.seen
    ELSE trig.rem
\* A set iterator raises RuntimeError when the set's size has changed.
SizeChanged == trig.cur = all /\ Cardinality(Live) # trig.used

\* trigger (389-399): the next key of the copied dict, in the dict's order.
TriggerNext ==
    /\ trig.st = "run"
    /\ ~SizeChanged
    /\ LoopOver = {}
    /\ IF trig.keys = {}
       THEN trig' = [trig EXCEPT !.st = "done", !.cur = None]
       ELSE \E nargs \in trig.keys :
              trig' =
                IF nargs = all
                THEN [trig EXCEPT !.keys = @ \ {nargs}, !.cur = all, !.seen = {},
                                  !.used = Cardinality(connected[trig.disp][all])]
                ELSE IF Len(trig.args) + Cardinality(DOMAIN trig.kwargs) < nargs
                THEN [trig EXCEPT !.st = "raised", !.err = "ValueError"]
                ELSE [trig EXCEPT !.keys = @ \ {nargs}, !.cur = nargs,
                                  !.rem = connected[trig.disp][nargs]]
    /\ last' = Other("next")
    /\ UNCHANGED <<arguments, gl_f, connected, suppressFlag, events, attrs, cms, scopes,
                   calls, exc>>

\* "fraise" is  def fraise(*args, **kwargs): raise Exception().
Raises(f) == f = "fraise"

\* What the body of a callback does to the event that called it.
NoEffect == [op |-> "none", f |-> NoCallback, s |-> None]
ReEffects ==
    {[op |-> "connect", f |-> "f0", s |-> s] : s \in {all, 0}}
      \cup {[op |-> "disconnect", f |-> "f0", s |-> None]}
Effects(f) == IF f = "re" THEN ReEffects ELSE {NoEffect}

Apply(conn, eff) ==
    CASE eff.op = "connect" -> connect(conn, eff.f, eff.s)
      [] eff.op = "disconnect" -> disconnect(conn, eff.f)
      [] OTHER -> conn

\* trigger (391-392, 399-400): one callback of the current selector is called,
\* with the arguments recorded in calls; a call that Python cannot bind to
\* the callback's parameters (ok FALSE) raises TypeError out of trigger, and
\* so does the exception that the body of the callback raises: trigger has
\* no try statement.
TriggerInvoke ==
    /\ trig.st = "run"
    /\ trig.cur # None
    /\ IF SizeChanged THEN TRUE ELSE LoopOver # {}
    /\ IF SizeChanged
       THEN /\ trig' = [trig EXCEPT !.st = "raised", !.err = "RuntimeError"]
            /\ UNCHANGED <<connected, scopes, calls>>
       ELSE \E f \in LoopOver : \E eff \in Effects(f) :
              LET r == IF trig.cur = all
                       THEN [raised |-> FALSE, args |-> trig.args]
                       ELSE trigger_nargs(arguments[trig.disp], f, trig.args,
                                          trig.kwargs, trig.cur)
                  kw == IF trig.cur = all THEN trig.kwargs ELSE EmptyMap
              IN  IF r.raised
                  THEN /\ trig' = [trig EXCEPT !.st = "raised", !.err = "IndexError"]
                       /\ UNCHANGED <<connected, scopes, calls>>
                  ELSE /\ calls' = Append(calls, [f |-> f, nargs |-> trig.cur,
                                                  args |-> r.args, kwargs |-> kw,
                                                  ok |-> Accepts(f, r.args, kw)])
                       /\ IF Accepts(f, r.args, kw) /\ ~Raises(f)
                          THEN /\ connected' = [connected EXCEPT ![trig.disp] = Apply(@, eff)]
                               /\ scopes' = IF eff.op = "none" THEN scopes
                                            ELSE Touch(trig.disp, eff.f)
                               /\ trig' = [trig EXCEPT !.rem = @ \ {f},
                                                       !.seen = @ \cup {f},
                                                       !.mut = @ \/ eff.op # "none"]
                          ELSE /\ trig' = [trig EXCEPT !.st = "raised",
                                                       !.err = IF Accepts(f, r.args, kw)
                                                               THEN "Exception"
                                                               ELSE "TypeError"]
                               /\ UNCHANGED <<connected, scopes>>
    /\ last' = Other("invoke")
    /\ UNCHANGED <<arguments, gl_f, suppressFlag, events, attrs, cms, exc>>

\* trigger returns, or the error it raised reaches its caller.
TriggerReturn ==
    /\ trig.st \in {"done", "raised"}
    /\ trig' = IdleTrig
    /\ calls' = <<>>
    /\ exc' = trig.err
    /\ last' = [Other("return") EXCEPT !.arg.got = trig.err]
    /\ UNCHANGED <<arguments, gl_f, connected, suppressFlag, events, attrs, cms, scopes>>

\* A with-statement is entered on a context manager made on the spot.
PushCm(cm0) ==
    /\ Quiet
    /\ Len(scopes) < MaxDepth
    /\ \E vals \in Itervalues(events) :
         LET r == EnterCm(Store, cm0, vals)
         IN  /\ connected' = r.S.conn
             /\ suppressFlag' = r.S.flag
             /\ scopes' = Append(scopes, Frame("cm", r.cm, 0, CmPairs(cm0)))
             /\ last' = Op("enter", cm0.e, cm0.f, None, Frame("cm", r.cm, 0, CmPairs(cm0)))
    /\ UNCHANGED <<arguments, gl_f, events, attrs, cms, trig, calls, exc>>

\* with e.suppress():
SuppressEnter(e) == PushCm(NewCm("ev", e, NoCallback))
\* with e.suppress_callback(function):
SuppressCallbackEnter(e, function) == PushCm(NewCm("cb", e, function))
\* with events.suppress():
EventsSuppressEnter == PushCm(NewCm("evs", NoEvent, NoCallback))

\* The pairs that the first n context managers of the suppressor suppress.
EsPairs(list, n) == UNION {CmPairs(list[i]) : i \in 1..n}

EsActive == \E i \in DOMAIN scopes : scopes[i].kind = "es"

\* with es.suppress():  A suppressor's scope is not entered again while it
\* is open.  When a context manager cannot be entered, the finally clause
\* exits the ones entered and the error leaves the with-statement.
EsSuppressEnter ==
    /\ Quiet
    /\ Len(scopes) < MaxDepth
    /\ ~EsActive
    /\ cms # <<>>
    /\ \E vals \in Itervalues(events) :
         LET r == Es_enter(Store, cms, 1, vals)
             x == Es_exit(r.S, r.cms, r.n)
         IN  IF r.raised = ""
             THEN /\ connected' = r.S.conn
                  /\ suppressFlag' = r.S.flag
                  /\ cms' = r.cms
                  /\ scopes' = Append(scopes, Frame("es", NoCm, r.n, EsPairs(cms, r.n)))
                  /\ exc' = exc
                  /\ last' = [Op("enter", NoEvent, NoCallback, None,
                                 Frame("es", NoCm, r.n, EsPairs(cms, r.n)))
                               EXCEPT !.arg.entered = r.log]
             ELSE /\ connected' = x.S.conn
                  /\ suppressFlag' = x.S.flag
                  /\ cms' = x.cms
                  /\ scopes' = scopes
                  /\ exc' = r.raised
                  /\ last' = [Op("enter_failed", NoEvent, NoCallback, None,
                                 Frame("es", NoCm, r.n, EsPairs(cms, Len(cms))))
                               EXCEPT !.arg.entered = r.log, !.arg.exited = x.log,
                                      !.arg.cms = cms]
    /\ UNCHANGED <<arguments, gl_f, events, attrs, trig, calls>>

\* The innermost with-statement is left: by its body ending, or by the
\* exception that is propagating.  The finally clauses run either way.
ExitScope ==
    /\ trig.st = "idle"
    /\ scopes # <<>>
    /\ LET top == scopes[Len(scopes)]
           x == IF top.kind = "es" THEN Es_exit(Store, cms, top.n)
                ELSE [S |-> ExitCm(Store, top.cm), cms |-> cms, log |-> <<>>]
       IN  /\ connected' = x.S.conn
           /\ suppressFlag' = x.S.flag
           /\ cms' = x.cms
           /\ last' = [Op("exit", top.cm.e, top.cm.f, None, top)
                        EXCEPT !.arg.got = exc, !.arg.exited = x.log, !.arg.cms = cms]
    /\ scopes' = SubSeq(scopes, 1, Len(scopes) - 1)
    /\ UNCHANGED <<arguments, gl_f, events, attrs, trig, calls, exc>>

\* An except clause (or the top level) takes the exception.
Catch ==
    /\ exc # ""
    /\ exc' = ""
    /\ last' = Other("catch")
    /\ UNCHANGED <<arguments, gl_f, connected, suppressFlag, events, attrs, cms, scopes,
                   trig, calls>>

\* es = EventSupressor()
NewSuppressor ==
    /\ Quiet
    /\ ~EsActive
    /\ cms # <<>>
    /\ cms' = <<>>
    /\ last' = [Other("new") EXCEPT !.before = Store]
    /\ UNCHANGED <<arguments, gl_f, connected, suppressFlag, events, attrs, scopes, trig,
                   calls, exc>>

\* es.add(*to_suppress)
Add(to_suppress) ==
    /\ Quiet
    /\ ~EsActive
    /\ \E vals \in Itervalues(events) :
         LET r == add(cms, to_suppress, vals)
         IN  /\ Len(r.cms) <= MaxCms
             /\ cms' = r.cms
             /\ exc' = r.raised
    /\ last' = [Other("add") EXCEPT !.before = Store, !.arg.to_suppress = to_suppress,
                                    !.arg.cms = cms]
    /\ UNCHANGED <<arguments, gl_f, connected, suppressFlag, events, attrs, scopes, trig,
                   calls>>

\* The attributes of the class Events: its methods.  Attribute retrieval
\* finds them, like the names of the instance's __dict__, before __getattr__
\* is asked.
Reserved == {"suppress"}
Ordinary == "ordinary"        \* a value that is not an Event
Method == "method"            \* a bound method of the class

\* What an attribute access starts from.
Access(name) == [NoArg EXCEPT !.name = name, !.reg = events, !.attrs = attrs]

\* events.<name> = e   (Events.__setattr__, 74-76)
SetAttr(name, e) ==
    /\ Quiet
    /\ events' = IF name \in DOMAIN events THEN [events EXCEPT ![name] = e]
                 ELSE events @@ (name :> e)
    /\ last' = [Other("setattr") EXCEPT !.e = e, !.arg = Access(name)]
    /\ UNCHANGED <<arguments, gl_f, connected, suppressFlag, attrs, cms, scopes, trig,
                   calls, exc>>

\* events.<name> = 5   (Events.__setattr__, 77-78: the ordinary assignment)
SetOrdinary(name) ==
    /\ Quiet
    /\ attrs' = attrs \cup {name}
    /\ last' = [Other("setordinary") EXCEPT !.arg = Access(name)]
    /\ UNCHANGED <<arguments, gl_f, connected, suppressFlag, events, cms, scopes, trig,
                   calls, exc>>

\* x = events.<name>: the instance's __dict__, then the class, and only then
\* Events.__getattr__ (88), whose self._events[name] raises KeyError.
getattr(reg, dict, name) ==
    IF name \in dict THEN Ordinary
    ELSE IF name \in Reserved THEN Method
    ELSE IF name \in DOMAIN reg THEN reg[name]
    ELSE "KeyError"

GetAttr(name) ==
    /\ Quiet
    /\ exc' = IF getattr(events, attrs, name) = "KeyError" THEN "KeyError" ELSE exc
    /\ last' = [Other("getattr") EXCEPT !.arg = [Access(name) EXCEPT
                                                  !.got = getattr(events, attrs, name)]]
    /\ UNCHANGED <<arguments, gl_f, connected, suppressFlag, events, attrs, cms, scopes,
                   trig, calls>>

\* A deletion that removes every name under which the event is registered.
Events_delattr_by_value(reg, name) ==
    [n \in {x \in DOMAIN reg : reg[x] # reg[name]} |-> reg[n]]
\* del self._events[name] (99)
Events_delattr(reg, name) == [n \in (DOMAIN reg) \ {name} |-> reg[n]]

\* del events.<name>   (Events.__delattr__, 98-102): the registry entry if
\* there is one, else the ordinary deletion, which raises AttributeError for
\* a name that is not in the instance's __dict__.
DelAttr(name) ==
    /\ Quiet
    /\ IF name \in DOMAIN events
       THEN /\ events' = Events_delattr(events, name)
            /\ UNCHANGED <<attrs, exc>>
       ELSE IF name \in attrs
       THEN /\ attrs' = attrs \ {name}
            /\ UNCHANGED <<events, exc>>
       ELSE /\ exc' = "AttributeError"
            /\ UNCHANGED <<events, attrs>>
    /\ last' = [Other("delattr") EXCEPT !.before = Store, !.arg = Access(name)]
    /\ UNCHANGED <<arguments, gl_f, connected, suppressFlag, cms, scopes, trig, calls>>

\* Event()   (Event.__init__ with its defaults, 155-160)
Event_new == [arguments |-> NoArguments, connected |-> EmptyMap, suppress |-> FALSE]
\* A copy that keeps what the original holds.
deepcopy_carries(self) == self
\* Event.__deepcopy__ (402-405): type(self)()
deepcopy(self) == Event_new

\* dst = copy.deepcopy(src), where no open with-statement holds the event
\* that dst named before.  The function that the global f names stays that
\* of the event it was made for, which dst names no longer.
DeepCopy(src, dst) ==
    /\ Quiet
    /\ src # dst
    /\ \A i \in DOMAIN scopes : scopes[i].kind = "cm" /\ scopes[i].cm.e # dst
    /\ LET dc == deepcopy([arguments |-> arguments[src],
                           connected |-> connected[src],
                           suppress |-> suppressFlag[src]])
       IN  /\ arguments' = [arguments EXCEPT ![dst] = dc.arguments]
           /\ connected' = [connected EXCEPT ![dst] = dc.connected]
           /\ suppressFlag' = [suppressFlag EXCEPT ![dst] = dc.suppress]
    /\ gl_f' = IF gl_f = dst THEN NoEvent ELSE gl_f
    /\ last' = [Op("deepcopy", src, NoCallback, None, NoFrame) EXCEPT !.arg.copy = dst]
    /\ UNCHANGED <<events, attrs, cms, scopes, trig, calls, exc>>

\* ------------------------------------------------------- the specifications
\* After construction: e1 = Event(arguments=("a", ("b", 10))), e2 = Event(),
\* events = Events(), es = EventSupressor().
Init ==
    /\ arguments = [e \in Evts |-> IF e = "e1" THEN ArgsAB ELSE NoArguments]
    /\ gl_f = "e1"
    /\ connected = [e \in Evts |-> EmptyMap]
    /\ suppressFlag = [e \in Evts |-> FALSE]
    /\ events = EmptyMap
    /\ attrs = {}
    /\ cms = <<>>
    /\ scopes = <<>>
    /\ trig = IdleTrig
    /\ calls = <<>>
    /\ exc = ""
    /\ last = Other("init")

Names == {"changed", "closed"}
TriggerStep == TriggerNext \/ TriggerInvoke \/ TriggerReturn

\* Spec: Event.suppress around triggers.
Next ==
    \/ \E e \in Evts, s \in {all, 0} : Connect(e, "fvar", s)
    \/ \E e \in Evts : Disconnect(e, "fvar")
    \/ \E e \in Evts, S \in {{}, {"a"}} : TriggerCall(e, <<>>, Kwargs(S))
    \/ TriggerStep
    \/ \E e \in Evts : SuppressEnter(e)
    \/ ExitScope
    \/ Catch

Spec == Init /\ [][Next]_vars

\* SpecEvents: the Events container and Events.suppress.
NextEvents ==
    \/ \E n \in Names, e \in Evts : SetAttr(n, e)
    \/ \E n \in Names : DelAttr(n)
    \/ EventsSuppressEnter
    \/ \E e \in Evts : SuppressEnter(e)
    \/ ExitScope
    \/ Catch

SpecEvents == Init /\ [][NextEvents]_vars

\* SpecCallback: Event.suppress_callback around triggers.
CallbackPairs == {<<"fvar", all>>, <<"fvar", 0>>, <<"fa", 1>>}
NextCallback ==
    \/ \E p \in CallbackPairs : Connect("e2", p[1], p[2])
    \/ \E f \in {"fvar", "fa"} : Disconnect("e2", f)
    \/ \E S \in {{}, {"a"}} : TriggerCall("e2", <<>>, Kwargs(S))
    \/ TriggerStep
    \/ \E f \in {"fvar", "fa"} : SuppressCallbackEnter("e2", f)
    \/ ExitScope
    \/ Catch

SpecCallback == Init /\ [][NextCallback]_vars

\* SpecSuppressor: the EventSupressor.
InitSuppressor ==
    /\ arguments = [e \in Evts |-> IF e = "e1" THEN ArgsAB ELSE NoArguments]
    /\ gl_f = "e1"
    /\ connected = [e \in Evts |-> EmptyMap]
    /\ suppressFlag = [e \in Evts |-> FALSE]
    /\ events = ("changed" :> "e1") @@ ("closed" :> "e2")
    /\ attrs = {}
    /\ cms = <<>>
    /\ scopes = <<>>
    /\ trig = IdleTrig
    /\ calls = <<>>
    /\ exc = ""
    /\ last = Other("init")

SuppressorTargets ==
    {<<TEvent(e)>> : e \in Evts}
      \cup {<<TEvent(e), TCallable("fvar")>> : e \in Evts}
      \cup {<<TEvents, TCallable("fvar")>>}
      \cup {<<TEvent("e1"), TEvent("e2")>>}

NextSuppressor ==
    \/ \E e \in Evts : Connect(e, "fvar", all)
    \/ Connect("e2", "fvar", 0)
    \/ \E e \in Evts, S \in {{}, {"a"}} : TriggerCall(e, <<>>, Kwargs(S))
    \/ TriggerStep
    \/ \E t \in SuppressorTargets : Add(t)
    \/ NewSuppressor
    \/ EsSuppressEnter
    \/ ExitScope
    \/ Catch

SpecSuppressor == InitSuppressor /\ [][NextSuppressor]_vars

\* SpecDispatch: connect, disconnect and the dispatch of trigger, on an event
\* made as e2 = Event() or as e2 = Event(arguments=("a", ("b", 10))).
InitDispatch ==
    /\ \E A \in {NoArguments, ArgsAB} :
         /\ arguments = [e \in Evts |-> IF e = "e2" THEN A ELSE NoArguments]
         /\ gl_f = IF A = NoArguments THEN NoEvent ELSE "e2"
    /\ connected = [e \in Evts |-> EmptyMap]
    /\ suppressFlag = [e \in Evts |-> FALSE]
    /\ events = EmptyMap
    /\ attrs = {}
    /\ cms = <<>>
    /\ scopes = <<>>
    /\ trig = IdleTrig
    /\ calls = <<>>
    /\ exc = ""
    /\ last = Other("init")

DispatchPairs ==
    {<<"fvar", all>>, <<"fvar", 0>>, <<"fa", 1>>, <<"fab", 2>>, <<"m", 2>>}
DispatchCalls ==
    {[args |-> Positional(k), kwargs |-> Kwargs(S)] : k \in 0..MaxPos, S \in SUBSET KwNames}
NextDispatch ==
    \/ \E p \in DispatchPairs : Connect("e2", p[1], p[2])
    \/ \E f \in {"fvar", "fa", "fab", "m"} : Disconnect("e2", f)
    \/ \E c \in DispatchCalls : TriggerCall("e2", c.args, c.kwargs)
    \/ TriggerStep
    \/ Catch

SpecDispatch == InitDispatch /\ [][NextDispatch]_vars

\* SpecReentrant: a callback that changes the connections of its event.
NextReentrant ==
    \/ \E f \in {"f0", "re"}, s \in {all, 0} : Connect("e2", f, s)
    \/ \E f \in {"f0", "re"} : Disconnect("e2", f)
    \/ TriggerCall("e2", <<>>, EmptyMap)
    \/ TriggerStep
    \/ Catch

SpecReentrant == Init /\ [][NextReentrant]_vars

\* ------------------------------------------------------------ the properties
\* The frames of the open with-statements on context managers of one kind.
Open(kind) == {i \in DOMAIN scopes : scopes[i].kind = "cm" /\ scopes[i].cm.kind = kind}
\* The state was reached by leaving a with-statement of that kind.
Left(kind) ==
    last.op = "exit" /\ last.frame.kind = "cm" /\ last.frame.cm.kind = kind
\* How often the running trigger has called f for the selector s.
Invocations(f, s) ==
    Cardinality({i \in DOMAIN calls :
                   calls[i].f = f /\ calls[i].nargs = s /\ calls[i].ok})

\* C1 (Spec): while a scope of e.suppress() is open, e is suppressed and no
\* trigger of e calls a callback; leaving the scope, at the end of its body
\* or by an error, gives e the flag it had just before the scope was entered,
\* so that leaving the inner of two nested scopes leaves e suppressed.
C1_EventSuppressScope ==
    /\ \A i \in Open("ev") :
         /\ suppressFlag[scopes[i].cm.e]
         /\ trig.on = scopes[i].cm.e => calls = <<>>
    /\ Left("ev") =>
         suppressFlag[last.frame.cm.e] = last.frame.pre.flag[last.frame.cm.e]

\* An error raised by a trigger is leaving the inner of two nested scopes of
\* the same event, which still has a callback connected.
C1_Witness ==
    /\ Left("ev")
    /\ exc # ""
    /\ \E i \in Open("ev") : scopes[i].cm.e = last.frame.cm.e
    /\ last.frame.pre.flag[last.frame.cm.e]
    /\ connected_all(connected[last.frame.cm.e]) # {}

\* The state was reached by leaving the scope of es.suppress().
EsLeft == last.op = "exit" /\ last.frame.kind = "es"
\* The selectors of the pair p = <<event, callback>> in the connections conn.
PairSelectors(conn, p) == SelectorsOf(conn[p[1]], p[2])

\* C2 (SpecSuppressor): when the scope of es.suppress() has been left, at the
\* end of its body or by an error, every event has the flag and every
\* suppressed (event, callback) pair that the body did not connect or
\* disconnect has the selectors of just before the scope was entered; when
\* a context manager cannot be entered, the ones entered before it are
\* exited, and flags and selectors are those of before the attempt; and
\* outside the scope no context manager of the suppressor is left entered.
C2_SuppressorRestores ==
    /\ EsLeft =>
         /\ suppressFlag = last.frame.pre.flag
         /\ \A p \in last.frame.pairs \ last.frame.touched :
              PairSelectors(connected, p) = last.frame.pre.sel[p]
    /\ last.op = "enter_failed" =>
         /\ suppressFlag = last.before.flag
         /\ \A p \in last.frame.pairs :
              PairSelectors(connected, p) = PairSelectors(last.before.conn, p)
    /\ ~EsActive => \A i \in DOMAIN cms : cms[i].st # "entered"

\* An error raised by a trigger has left the scope of a suppressor of an
\* event and of a callback that was connected under two selectors.
C2_Witness ==
    /\ EsLeft
    /\ exc # ""
    /\ last.frame.n = 2
    /\ \E i \in 1..2 : cms[i].kind = "ev"
    /\ \E p \in last.frame.pairs \ last.frame.touched :
         Cardinality(last.frame.pre.sel[p]) = 2

\* C3 (SpecReentrant): a trigger during which a callback connects or
\* disconnects on the triggered event raises no error from the iteration,
\* calls no callback that was not connected when trigger was called, and
\* has, when it completes, called every callback that was connected then,
\* once for each of its selectors.
C3_ReentrantSnapshot ==
    trig.mut =>
      /\ trig.err # "RuntimeError"
      /\ \A i \in DOMAIN calls :
           calls[i].f \in connected_nargs(trig.snap, calls[i].nargs)
      /\ trig.st = "done" =>
           \A s \in DOMAIN trig.snap : \A f \in trig.snap[s] : Invocations(f, s) = 1

\* The frame fr suppresses a callback that the code inside it has neither
\* connected nor disconnected.
Untouched(fr) == <<fr.cm.e, fr.cm.f>> \notin fr.touched

\* C4 (SpecCallback): entering e.suppress_callback(f) takes f, and nothing
\* else, out of every selector of e; while the scope is open (and its body
\* has not connected f itself) no trigger of e calls f, and a trigger that
\* completes has called every callback connected when it started once for
\* each of its selectors; leaving the scope, at the end of its body or by
\* an error, changes no other callback and leaves f under exactly the
\* selectors it had just before entry, which are none if it had none.
C4_SuppressCallbackScope ==
    /\ \A i \in Open("cb") :
         Untouched(scopes[i]) =>
           /\ SelectorsOf(connected[scopes[i].cm.e], scopes[i].cm.f) = {}
           /\ trig.disp = scopes[i].cm.e =>
                \A j \in DOMAIN calls : calls[j].f # scopes[i].cm.f
    /\ (last.op = "enter" /\ last.frame.cm.kind = "cb") =>
         connected = [last.before.conn EXCEPT ![last.e] =
                        [s \in DOMAIN @ |-> @[s] \ {last.f}]]
    /\ trig.st = "done" =>
         \A s \in DOMAIN trig.snap : \A g \in trig.snap[s] : Invocations(g, s) = 1
    /\ Left("cb") =>
         /\ \A g \in {"fvar", "fa"} \ {last.f} :
              SelectorsOf(connected[last.e], g) = SelectorsOf(last.before.conn[last.e], g)
         /\ Untouched(last.frame) =>
              SelectorsOf(connected[last.e], last.f) = last.frame.pre.sel[<<last.e, last.f>>]
         /\ (Untouched(last.frame) /\ last.frame.pre.sel[<<last.e, last.f>>] = {}) =>
              connected = last.before.conn

\* An error raised by a trigger has left the scope that suppressed a
\* callback connected under two selectors, beside another connected callback.
C4_Witness ==
    /\ Left("cb")
    /\ exc # ""
    /\ Untouched(last.frame)
    /\ Cardinality(last.frame.pre.sel[<<last.e, last.f>>]) = 2
    /\ connected_all(last.before.conn[last.e]) # {}

\* C5 (SpecDispatch): after e.disconnect(f), f is in connected() and in
\* connected(s) for no selector s, and no error is raised; if f was not
\* connected, no connection has changed; and every callback that a trigger
\* calls is connected at that moment, so that a disconnected callback is
\* not called until it is connected again.
C5_Disconnect ==
    /\ last.op = "disconnect" =>
         /\ last.f \notin connected_all(connected[last.e])
         /\ \A s \in Selectors : last.f \notin connected_nargs(connected[last.e], s)
         /\ exc = ""
         /\ last.f \notin connected_all(last.before.conn[last.e]) =>
              connected = last.before.conn
    /\ \A i \in DOMAIN calls :
         calls[i].f \in connected_nargs(connected[trig.disp], calls[i].nargs)

\* A callback connected under two selectors has been disconnected, beside
\* another callback that stays connected.
C5_Witness ==
    /\ last.op = "disconnect"
    /\ Cardinality(SelectorsOf(last.before.conn[last.e], last.f)) = 2
    /\ connected_all(connected[last.e]) # {}

\* C6 (SpecDispatch): every call that trigger makes to a callback connected
\* under an integer selector n passes exactly n positional arguments and
\* no keyword argument, whatever the names of the keyword arguments given
\* to trigger and whether the callback is a function or a bound method.
C6_ExactlyNArguments ==
    \A i \in DOMAIN calls :
      calls[i].nargs # all =>
        /\ Len(calls[i].args) = calls[i].nargs
        /\ calls[i].kwargs = EmptyMap

\* C7 (SpecDispatch): a trigger that raises the ValueError of too few
\* arguments for an integer selector has called no callback.
C7_ErrorBeforeAnyCallback ==
    (trig.st = "raised" /\ trig.err = "ValueError") => calls = <<>>

\* C8 (SpecEvents): while a scope of events.suppress() is open, every event
\* that was registered in the container when it was entered is suppressed;
\* when the scope has been left, at the end of its body or by an error, each
\* of those events has the flag it had just before the scope was entered.
C8_EventsSuppressRestores ==
    /\ \A i \in Open("evs") : \A e \in DOMAIN scopes[i].cm.olds : suppressFlag[e]
    /\ Left("evs") =>
         \A e \in DOMAIN last.frame.cm.olds :
           suppressFlag[e] = last.frame.pre.flag[e]

\* C9 (SpecDispatch): connect(f, s) adds f under the selector s and changes
\* nothing else, and changes nothing at all when f is already connected
\* under s; a trigger never calls a callback twice for one selector, and a
\* trigger that completes has called each callback once for each selector
\* under which it was connected.
C9_ConnectIdempotent ==
    /\ (last.op = "connect" /\ exc = "") =>
         LET n == ResolveNargs(last.f, last.s)
             was == last.before.conn[last.e]
         IN  /\ last.f \in connected_nargs(was, n) => connected = last.before.conn
             /\ SelectorsOf(connected[last.e], last.f) = SelectorsOf(was, last.f) \cup {n}
             /\ \A g \in connected_all(was) \ {last.f} :
                  SelectorsOf(connected[last.e], g) = SelectorsOf(was, g)
    /\ \A i, j \in DOMAIN calls :
         (calls[i].f = calls[j].f /\ calls[i].nargs = calls[j].nargs) => i = j
    /\ trig.st = "done" =>
         \A s \in DOMAIN trig.snap : \A f \in trig.snap[s] : Invocations(f, s) = 1

\* A trigger has completed on an event that has a callback connected under
\* two selectors, and has called it once for each.
C9_Witness ==
    /\ trig.st = "done"
    /\ \E f \in connected_all(trig.snap) : \E s1, s2 \in SelectorsOf(trig.snap, f) :
         s1 # s2 /\ Invocations(f, s1) = 1 /\ Invocations(f, s2) = 1

\* C10 (SpecDispatch): on the event declared with arguments ("a", ("b", 10)),
\* a trigger call with an undeclared keyword, with more than two positional
\* arguments or without a value for a raises TypeError and calls no
\* callback; a call that gives a and not b delivers the value of a and
\* b = 10, as keywords, to the callbacks connected under 'all'.
C10_FixedSignature ==
    (trig.st # "idle" /\ arguments[trig.on] = ArgsAB) =>
      LET g == trig.given
      IN  /\ ( \/ \E k \in DOMAIN g.kwargs : k \notin {"a", "b"}
               \/ Len(g.args) > 2
               \/ (g.args = <<>> /\ "a" \notin DOMAIN g.kwargs) ) =>
                (trig.st = "raised" /\ trig.err = "TypeError" /\ calls = <<>>)
          /\ (Len(g.args) = 1 /\ DOMAIN g.kwargs = {}) =>
                (trig.args = <<>> /\ trig.kwargs = [a |-> g.args[1], b |-> 10])
          /\ (g.args = <<>> /\ DOMAIN g.kwargs = {"a"}) =>
                (trig.args = <<>> /\ trig.kwargs = [a |-> g.kwargs["a"], b |-> 10])
          /\ \A i \in DOMAIN calls :
               calls[i].nargs = all =>
                 (calls[i].args = <<>> /\ calls[i].kwargs = trig.kwargs)

\* trigger(a=5) on that event has completed and has called a callback
\* connected under 'all' with a=5, b=10.
C10_Witness ==
    /\ trig.st = "done"
    /\ arguments[trig.on] = ArgsAB
    /\ trig.given = [args |-> <<>>, kwargs |-> [a |-> 5]]
    /\ \E i \in DOMAIN calls :
         /\ calls[i].nargs = all /\ calls[i].ok
         /\ calls[i].kwargs = [a |-> 5, b |-> 10]

ConnectCallbacks == {"f0", "fa", "fvar", "m1", "notcallable"}
ConnectSelectors == {all, auto, None, 0, 1}
NextConnect ==
    \/ \E f \in ConnectCallbacks, s \in ConnectSelectors : Connect("e2", f, s)
    \/ \E f \in ConnectCallbacks : Disconnect("e2", f)
    \/ \E k \in 0..2 : TriggerCall("e2", Positional(k), EmptyMap)
    \/ TriggerStep
    \/ Catch

SpecConnect == Init /\ [][NextConnect]_vars

\* C12 (SpecConnect): connect(f, 'auto') adds f under 'all' when f declares
\* *args or **kwargs, and otherwise under the number of parameters that f
\* declares, the receiver of a bound method not counted.
C12_AutoSelector ==
    (last.op = "connect" /\ last.s = auto /\ exc = "") =>
      LET n == IF HasVarArgs(last.f) THEN all ELSE Len(Params(last.f))
      IN  SelectorsOf(connected[last.e], last.f) =
            SelectorsOf(last.before.conn[last.e], last.f) \cup {n}

\* C20 (SpecConnect): connect of a value that is not callable raises
\* TypeError whatever nargs is ('all', 'auto', None or an integer) and
\* leaves the connections of the event as they were.
C20_NotCallable ==
    (last.op = "connect" /\ last.f = "notcallable") =>
      /\ last.s \in ConnectSelectors
      /\ exc = "TypeError"
      /\ connected = last.before.conn

\* connect(x, 'auto') of a value x that is not callable has raised, on an
\* event that has callbacks connected.
C20_Witness ==
    /\ last.op = "connect"
    /\ last.f = "notcallable"
    /\ last.s = auto
    /\ exc = "TypeError"
    /\ Cardinality(Subscriptions(connected[last.e])) >= 2

\* SpecAdd: what EventSupressor.add makes of its arguments.
AddTargets ==
    { <<>>, <<TOther>>, <<TOther, TOther>>, <<TTuple(<<>>)>>, <<TCallable("fvar")>>,
      <<TEvent("e1")>>, <<TEvents>>, <<TEvent("e1"), TEvents>>,
      <<TEvent("e2"), TCallable("fvar")>>,
      <<TTuple(<<TTuple(<<TEvent("e1"), TEvent("e2")>>)>>)>>,
      <<TEvent("e1"), TTuple(<<TEvent("e2")>>)>> }
NextAdd ==
    \/ \E e \in Evts : Connect(e, "fvar", all)
    \/ \E e \in Evts : TriggerCall(e, <<>>, Kwargs({"a"}))
    \/ TriggerStep
    \/ \E t \in AddTargets : Add(t)
    \/ NewSuppressor
    \/ EsSuppressEnter
    \/ ExitScope
    \/ Catch

SpecAdd == InitSuppressor /\ [][NextAdd]_vars

\* The recognized targets that occur in x, at any depth.
IsPair(x) ==
    /\ x.t = "tuple"
    /\ Len(x.items) = 2
    /\ x.items[1].t \in {"Event", "Events"}
    /\ x.items[2].t = "callable"
RECURSIVE Recognized(_)
Recognized(x) ==
    IF x.t \in {"Event", "Events"} \/ IsPair(x) THEN {x}
    ELSE IF x.t = "tuple" THEN UNION {Recognized(x.items[i]) : i \in DOMAIN x.items}
    ELSE {}
\* The list of context managers holds one for the target x.
Handled(x, list) ==
    CASE x.t = "Event" -> \E i \in DOMAIN list : list[i].kind = "ev" /\ list[i].e = x.e
      [] x.t = "Events" -> \E i \in DOMAIN list : list[i].kind = "evs"
      [] x.items[1].t = "Event" ->
           \E i \in DOMAIN list :
             list[i].kind = "cb" /\ list[i].e = x.items[1].e /\ list[i].f = x.items[2].f
      [] OTHER ->
           \A e \in Range(events) : \E i \in DOMAIN list :
             list[i].kind = "cb" /\ list[i].e = e /\ list[i].f = x.items[2].f

\* C13 (SpecAdd): after an add that has returned, every recognized target
\* that occurs at any depth of nesting in its arguments has a context
\* manager in the list of the suppressor.
C13_FlattensRecursively ==
    (last.op = "add" /\ exc = "") =>
      \A x \in Recognized(TTuple(last.arg.to_suppress)) : Handled(x, cms)

\* C14 (SpecAdd): an add whose arguments hold no recognized target (no
\* argument, one value that is neither iterable nor a target, an empty
\* iterable, an iterable of values that are no targets) raises ValueError
\* and leaves the list of context managers as it was.
C14_NoTargetRaises ==
    (last.op = "add" /\ Recognized(TTuple(last.arg.to_suppress)) = {}) =>
      (exc = "ValueError" /\ cms = last.arg.cms)

\* The context managers that the open scope of es.suppress() has entered.
EsEntered ==
    {i \in DOMAIN cms : EsActive /\ cms[i].st = "entered"}

\* C15 (SpecAdd): add accepts the Events container itself, alone or beside
\* other targets: it raises nothing and the list holds a context manager
\* of events.suppress(); inside es.suppress() every event of a container
\* that was added, and every event that was added, is suppressed and its
\* triggers call nothing.
C15_BareEventsAccepted ==
    /\ (last.op = "add" /\ TEvents \in Range(last.arg.to_suppress)) =>
         (exc = "" /\ Handled(TEvents, cms))
    /\ \A i \in EsEntered :
         /\ cms[i].kind = "evs" => \A e \in Range(events) : suppressFlag[e]
         /\ cms[i].kind = "ev" =>
              (suppressFlag[cms[i].e] /\ (trig.on = cms[i].e => calls = <<>>))

\* SpecRegistry: the attributes of an Events container.
RegNames == {"changed", "suppress"}
NextRegistry ==
    \/ \E n \in RegNames, e \in Evts : SetAttr(n, e)
    \/ \E n \in RegNames : SetOrdinary(n)
    \/ \E n \in RegNames : GetAttr(n)
    \/ \E n \in RegNames : DelAttr(n)
    \/ EventsSuppressEnter
    \/ ExitScope
    \/ Catch

SpecRegistry == Init /\ [][NextRegistry]_vars

\* C16 (SpecRegistry): assigning an Event under a name makes the name map
\* to it in the registry and changes no other entry; retrieving a
\* registered name returns its event; assigning a value that is not an
\* Event leaves the registry as it was; retrieving a name that is not
\* registered, not in the instance's __dict__ and not an attribute of the
\* class raises KeyError.
C16_RegistryAccess ==
    /\ last.op = "setattr" =>
         /\ DOMAIN events = DOMAIN last.arg.reg \cup {last.arg.name}
         /\ events[last.arg.name] = last.e
         /\ \A n \in DOMAIN last.arg.reg \ {last.arg.name} : events[n] = last.arg.reg[n]
         /\ getattr(events, attrs, last.arg.name) = last.e
    /\ last.op = "getattr" =>
         /\ last.arg.name \in DOMAIN events => last.arg.got = events[last.arg.name]
         /\ last.arg.name \notin DOMAIN events \cup attrs \cup Reserved => exc = "KeyError"
    /\ last.op = "setordinary" => events = last.arg.reg

\* C17 (SpecRegistry): no name of the registry is the name of an attribute
\* of the class, so that every event that the container iterates and
\* suppresses is the one that retrieving its name returns.
C17_NoReservedCollision ==
    /\ DOMAIN events \cap Reserved = {}
    /\ \A i \in Open("evs") : \A e \in DOMAIN scopes[i].cm.olds :
         (last.op = "enter" /\ i = Len(scopes)) =>
           \E n \in DOMAIN events : getattr(events, attrs, n) = e

NextCopy ==
    \/ \E e \in Evts, s \in {all, 0} : Connect(e, "fvar", s)
    \/ \E e \in Evts : Disconnect(e, "fvar")
    \/ \E e \in Evts, S \in {{}, {"a"}} : TriggerCall(e, <<>>, Kwargs(S))
    \/ TriggerStep
    \/ \E e \in Evts : SuppressEnter(e)
    \/ ExitScope
    \/ \E src \in Evts, dst \in Evts : DeepCopy(src, dst)
    \/ Catch

SpecCopy == Init /\ [][NextCopy]_vars

\* C19 (SpecCopy): the copy of an event has no callback under any selector
\* and is not suppressed, whatever the original holds, and the original
\* keeps its connections and its flag; a trigger calls the callbacks of the
\* event that it was called on only, so that a trigger of the copy calls
\* none of the original's.
C19_CopyIsBlank ==
    /\ last.op = "deepcopy" =>
         /\ connected_all(connected[last.arg.copy]) = {}
         /\ \A s \in IntSelectors : connected_nargs(connected[last.arg.copy], s) = {}
         /\ Subscriptions(connected[last.arg.copy]) = {}
         /\ ~suppressFlag[last.arg.copy]
         /\ connected[last.e] = last.before.conn[last.e]
         /\ suppressFlag[last.e] = last.before.flag[last.e]
    /\ trig.on # NoEvent =>
         \A i \in DOMAIN calls :
           calls[i].f \in connected_nargs(connected[trig.on], calls[i].nargs)
    /\ (trig.on # NoEvent /\ connected[trig.on] = EmptyMap) => calls = <<>>

\* The event that was made with declared arguments has been replaced by a
\* copy of the other one, which is connected and suppressed, and a trigger
\* of the copy has run to its end.
C19_Witness ==
    /\ arguments["e1"] = NoArguments
    /\ Subscriptions(connected["e1"]) = {}
    /\ Subscriptions(connected["e2"]) # {}
    /\ suppressFlag["e2"]
    /\ ~suppressFlag["e1"]
    /\ trig.on = "e1"
    /\ trig.st = "done"
    /\ calls = <<>>

\* SpecError: a callback that raises, called by a trigger inside the scopes
\* of e2.suppress_callback(fvar), events.suppress() and es.suppress().
ErrorTargets == {<<TEvent("e1")>>, <<TEvent("e2"), TCallable("fvar")>>}
NextError ==
    \/ \E f \in {"fraise", "fvar"} : Connect("e2", f, all)
    \/ \E n \in Names : SetAttr(n, "e1")
    \/ \E t \in ErrorTargets : Add(t)
    \/ TriggerCall("e2", <<>>, EmptyMap)
    \/ TriggerStep
    \/ SuppressCallbackEnter("e2", "fvar")
    \/ EventsSuppressEnter
    \/ EsSuppressEnter
    \/ ExitScope
    \/ Catch

SpecError == Init /\ [][NextError]_vars

\* The exception of a callback is leaving a with-statement.
Unwinding == last.op = "exit" /\ exc = "Exception"

\* C21 (SpecError): the call of a callback that raises ends the trigger,
\* whose caller gets the exception; and when the exception has left a
\* with-statement, it is still the exception, a suppressed callback that
\* the body did not connect or disconnect has the selectors, and the events
\* of the container and of the suppressor have the flags, of just before
\* the with-statement was entered.
C21_ErrorUnwindsScopes ==
    /\ \A i \in DOMAIN calls :
         Raises(calls[i].f) =>
           (i = Len(calls) /\ trig.st = "raised" /\ trig.err = "Exception")
    /\ (last.op = "return" /\ last.arg.got # "") => exc = last.arg.got
    /\ (last.op = "exit" /\ last.arg.got # "") => exc = last.arg.got
    /\ (Unwinding /\ last.frame.kind = "cm" /\ last.frame.cm.kind = "cb"
          /\ Untouched(last.frame)) =>
         SelectorsOf(connected[last.e], last.f) = last.frame.pre.sel[<<last.e, last.f>>]
    /\ (Unwinding /\ last.frame.kind = "cm" /\ last.frame.cm.kind = "evs") =>
         \A e \in DOMAIN last.frame.cm.olds : suppressFlag[e] = last.frame.pre.flag[e]
    /\ (Unwinding /\ last.frame.kind = "es") =>
         /\ suppressFlag = last.frame.pre.flag
         /\ \A p \in last.frame.pairs \ last.frame.touched :
              PairSelectors(connected, p) = last.frame.pre.sel[p]

\* SpecNested: es1 = EventSupressor(event_a, event_b) with event_a = e2 and
\* event_b = e1, and event_a.suppress_callback(fvar) inside es1.suppress().
NestedPairs == {<<"fvar", all>>, <<"fvar", 0>>, <<"fa", 1>>}
NextNested ==
    \/ \E p \in NestedPairs : Connect("e2", p[1], p[2])
    \/ Add(<<TEvent("e2"), TEvent("e1")>>)
    \/ EsSuppressEnter
    \/ SuppressCallbackEnter("e2", "fvar")
    \/ \E S \in {{}, {"a"}} : TriggerCall("e2", <<>>, Kwargs(S))
    \/ TriggerStep
    \/ ExitScope
    \/ Catch

SpecNested == Init /\ [][NextNested]_vars

\* The scope of event_a.suppress_callback(fvar) is open inside the scope
\* of es1.suppress().
Nested ==
    /\ Len(scopes) = 2
    /\ scopes[1].kind = "es"
    /\ scopes[2].kind = "cm"
    /\ scopes[2].cm.kind = "cb"

\* C22 (SpecNested): inside the two scopes a trigger of event_a calls no
\* callback; leaving the inner scope puts fvar back under the selectors it
\* had when that scope was entered, leaving the outer one changes no
\* connection and gives both events their flags back, so that outside the
\* scopes no event is suppressed; and a trigger of event_a that completes
\* outside the scopes has called every callback connected to it, fvar
\* among them, once for each of its selectors.
C22_NestedSuppression ==
    /\ Nested =>
         /\ suppressFlag["e1"] /\ suppressFlag["e2"]
         /\ trig.on = "e2" => calls = <<>>
    /\ (Left("cb") /\ EsActive /\ Untouched(last.frame)) =>
         SelectorsOf(connected["e2"], "fvar") = last.frame.pre.sel[<<"e2", "fvar">>]
    /\ EsLeft =>
         /\ connected = last.before.conn
         /\ suppressFlag = last.frame.pre.flag
    /\ scopes = <<>> =>
         /\ ~suppressFlag["e1"] /\ ~suppressFlag["e2"]
         /\ (trig.on = "e2" /\ trig.st = "done") =>
              \A s \in DOMAIN connected["e2"] : \A g \in connected["e2"][s] :
                Invocations(g, s) = 1

\* Inside the two scopes a trigger of event_a has returned; fvar was
\* connected under two selectors when the inner scope was entered, and
\* another callback is still connected.
C22_Witness ==
    /\ Nested
    /\ scopes[1].n = 2
    /\ Cardinality(scopes[2].pre.sel[<<"e2", "fvar">>]) = 2
    /\ Untouched(scopes[2])
    /\ connected_all(connected["e2"]) = {"fa"}
    /\ trig.on = "e2"
    /\ trig.st = "done"
    /\ DOMAIN trig.given.kwargs = {"a"}

\* SpecIsolation: two events made with a fixed signature, in either order:
\* e1 = Event(arguments=("a", ("b", 10))) and e2 likewise.  The global f is
\* the trigger of the one that was made last.
InitIsolation ==
    /\ arguments = [e \in Evts |-> ArgsAB]
    /\ gl_f \in Evts
    /\ connected = [e \in Evts |-> EmptyMap]
    /\ suppressFlag = [e \in Evts |-> FALSE]
    /\ events = EmptyMap
    /\ attrs = {}
    /\ cms = <<>>
    /\ scopes = <<>>
    /\ trig = IdleTrig
    /\ calls = <<>>
    /\ exc = ""
    /\ last = Other("init")

NextIsolation ==
    \/ \E e \in Evts, f \in {"fvar", "fab"} : Connect(e, f, all)
    \/ \E e \in Evts : Connect(e, "fa", 1)
    \/ \E e \in Evts, f \in {"fvar", "fab", "fa"} : Disconnect(e, f)
    \/ \E e \in Evts, S \in {{}, {"a"}} : TriggerCall(e, <<>>, Kwargs(S))
    \/ TriggerStep
    \/ \E e \in Evts : SuppressEnter(e)
    \/ ExitScope
    \/ Catch

SpecIsolation == InitIsolation /\ [][NextIsolation]_vars

\* C23 (SpecIsolation): a trigger of the event e calls callbacks that are
\* connected to e only, under the selector they are connected with; it
\* calls none when e is suppressed, whatever the flag of the other event;
\* and when e is not suppressed and the trigger completes, it has called
\* every callback connected to e once for each of its selectors.
C23_EventsIsolated ==
    trig.on # NoEvent =>
      /\ \A i \in DOMAIN calls :
           calls[i].f \in connected_nargs(connected[trig.on], calls[i].nargs)
      /\ suppressFlag[trig.on] => calls = <<>>
      /\ (trig.st = "done" /\ ~suppressFlag[trig.on]) =>
           \A s \in DOMAIN connected[trig.on] : \A g \in connected[trig.on][s] :
             Invocations(g, s) = 1

\* C24 (SpecCallback): a trigger raises ValueError only when a callback is
\* connected at that moment under an integer selector greater than the
\* number of arguments given: not after every callback of that selector
\* has been disconnected, and not while its only callback is suppressed
\* by an open scope of suppress_callback.
C24_ErrorOnlyForConnected ==
    (trig.st = "raised" /\ trig.err = "ValueError") =>
      \E n \in IntSelectors :
        /\ connected_nargs(connected[trig.disp], n) # {}
        /\ Len(trig.args) + Cardinality(DOMAIN trig.kwargs) < n

\* SpecContainerPair: es.add((events, fvar)) on a container that gets its
\* events before and after the add; the body of the with-statement triggers.
NextContainerPair ==
    \/ \E n \in Names, e \in Evts : ~EsActive /\ SetAttr(n, e)
    \/ \E e \in Evts : ~EsActive /\ Connect(e, "fvar", all)
    \/ \E e \in Evts : ~EsActive /\ Connect(e, "f0", 0)
    \/ Add(<<TEvents, TCallable("fvar")>>)
    \/ EsSuppressEnter
    \/ \E e \in Evts : TriggerCall(e, <<>>, EmptyMap)
    \/ TriggerStep
    \/ ExitScope
    \/ Catch

SpecContainerPair == Init /\ [][NextContainerPair]_vars

\* C25 (SpecContainerPair): inside the scope of a suppressor whose target
\* is (events, fvar), a trigger of an event that the container held when
\* the scope was entered does not call fvar, whether the event was
\* registered before the add or after it.
C25_ContainerPairAtEntry ==
    (EsActive /\ trig.on \in Range(events)) =>
      \A i \in DOMAIN calls : calls[i].f # "fvar"

Reverse(seq) == [i \in 1..Len(seq) |-> seq[Len(seq) + 1 - i]]
Upto(n) == [i \in 1..n |-> i]

\* C26 (SpecSuppressor): add appends the handles of its targets, in the
\* order of the targets, behind the handles that the suppressor has;
\* es.suppress() enters the handles first to last; when one cannot be
\* entered, the ones entered before it are exited last to first and no
\* other is touched; and leaving the scope, at the end of its body or by an
\* error, exits the handles that were entered, each once, last to first.
C26_EnterExitOrder ==
    /\ (last.op = "add" /\ exc = "") =>
         /\ Len(cms) >= Len(last.arg.cms)
         /\ SubSeq(cms, 1, Len(last.arg.cms)) = last.arg.cms
         /\ (\A i \in DOMAIN last.arg.to_suppress : last.arg.to_suppress[i].t = "Event") =>
              /\ Len(cms) = Len(last.arg.cms) + Len(last.arg.to_suppress)
              /\ \A i \in DOMAIN last.arg.to_suppress :
                   cms[Len(last.arg.cms) + i] =
                     NewCm("ev", last.arg.to_suppress[i].e, NoCallback)
    /\ (last.op = "enter" /\ last.frame.kind = "es") =>
         /\ last.arg.entered = Upto(Len(cms))
         /\ last.frame.n = Len(cms)
         /\ \A i \in DOMAIN cms : cms[i].st = "entered"
    /\ last.op = "enter_failed" =>
         /\ last.arg.entered = Upto(last.frame.n)
         /\ last.arg.exited = Reverse(last.arg.entered)
         /\ \A i \in DOMAIN cms :
              (i > last.frame.n + 1) => cms[i] = last.arg.cms[i]
    /\ EsLeft =>
         /\ last.arg.exited = Reverse(Upto(last.frame.n))
         /\ \A i \in DOMAIN cms :
              IF i <= last.frame.n THEN cms[i].st = "done" /\ last.arg.cms[i].st = "entered"
              ELSE cms[i] = last.arg.cms[i]

\* An error raised by a trigger has left the scope of a suppressor that
\* holds two handles of Event.suppress.
C26_Witness ==
    /\ EsLeft
    /\ exc # ""
    /\ last.arg.exited = <<2, 1>>
    /\ cms[1].kind = "ev"
    /\ cms[2].kind = "ev"

\* SpecPadding: integer selectors on e2 = Event(arguments=("a", ("b", 10))),
\* with callbacks that name their parameters as the event does (fa, fab)
\* and otherwise (fxy).
InitPadding ==
    /\ arguments = [e \in Evts |-> IF e = "e2" THEN ArgsAB ELSE NoArguments]
    /\ gl_f = "e2"
    /\ connected = [e \in Evts |-> EmptyMap]
    /\ suppressFlag = [e \in Evts |-> FALSE]
    /\ events = EmptyMap
    /\ attrs = {}
    /\ cms = <<>>
    /\ scopes = <<>>
    /\ trig = IdleTrig
    /\ calls = <<>>
    /\ exc = ""
    /\ last = Other("init")

PaddingPairs == {<<"fa", 1>>, <<"fab", 2>>, <<"fxy", 1>>, <<"fxy", 2>>}
PaddingCalls ==
    {[args |-> Positional(k), kwargs |-> Kwargs(S)] : k \in 0..2, S \in SUBSET {"a", "b"}}
NextPadding ==
    \/ \E p \in PaddingPairs : Connect("e2", p[1], p[2])
    \/ \E f \in {"fa", "fab", "fxy"} : Disconnect("e2", f)
    \/ \E c \in PaddingCalls : TriggerCall("e2", c.args, c.kwargs)
    \/ TriggerStep
    \/ Catch

SpecPadding == InitPadding /\ [][NextPadding]_vars

\* C27 (SpecPadding): on an event with declared arguments, every call to a
\* callback connected under an integer selector n passes the values of
\* the first n declared arguments, in the order of their declaration,
\* whether they are declared bare or with a default and whatever the
\* names of the callback's parameters.
C27_DeclaredOrderPadding ==
    (trig.disp # NoEvent /\ arguments[trig.disp] # NoArguments) =>
      \A i \in DOMAIN calls :
        calls[i].nargs # all =>
          calls[i].args = [k \in 1..calls[i].nargs |->
                             trig.kwargs[arguments[trig.disp][k].name]]

\* SpecLate: es.add(e1) and es.add((e2, fvar)), with fvar connected to e2
\* under 'all' at any time and under 0 only after an add.
LateTargets == {<<TEvent("e1")>>, <<TEvent("e2"), TCallable("fvar")>>}
NextLate ==
    \/ \E t \in LateTargets : Add(t)
    \/ NewSuppressor
    \/ \E f \in {"fvar", "f0"} : Connect("e2", f, all)
    \/ cms # <<>> /\ Connect("e2", "fvar", 0)
    \/ EsSuppressEnter
    \/ TriggerCall("e2", <<>>, EmptyMap)
    \/ TriggerStep
    \/ ExitScope
    \/ Catch

SpecLate == Init /\ [][NextLate]_vars

\* C28 (SpecLate): making a suppressor and adding targets to it changes no
\* flag and no connection, and the handles added are not entered; inside
\* the scope of es.suppress() a suppressed callback that the body did not
\* connect itself is under no selector and is not called by a trigger of
\* its event; and leaving the scope puts it back under the selectors it
\* had when the scope was entered, those of connections made after the
\* add among them.
C28_HandlesArmedAtEntry ==
    /\ last.op \in {"add", "new"} =>
         /\ connected = last.before.conn
         /\ suppressFlag = last.before.flag
         /\ \A i \in DOMAIN cms : i > Len(last.arg.cms) => cms[i].st = "fresh"
    /\ \A i \in DOMAIN scopes :
         scopes[i].kind = "es" =>
           \A p \in scopes[i].pairs \ scopes[i].touched :
             /\ PairSelectors(connected, p) = {}
             /\ trig.disp = p[1] => \A j \in DOMAIN calls : calls[j].f # p[2]
    /\ EsLeft =>
         \A p \in last.frame.pairs \ last.frame.touched :
           PairSelectors(connected, p) = last.frame.pre.sel[p]

\* The scope of a suppressor of (e2, fvar) has been left, and fvar is back
\* under 'all' and under 0, the selector that it got after the add.
C28_Witness ==
    /\ EsLeft
    /\ <<"e2", "fvar">> \in last.frame.pairs \ last.frame.touched
    /\ PairSelectors(last.before.conn, <<"e2", "fvar">>) = {}
    /\ PairSelectors(connected, <<"e2", "fvar">>) = {all, 0}
    /\ connected_all(last.before.conn["e2"]) # {}

\* C29 (SpecSuppressor): es.suppress() can be entered whenever its scope
\* is not open, also after it has been entered and left before; it then
\* suppresses every event and disconnects every callback among its targets.
C29_SuppressorReusable ==
    /\ last.op # "enter_failed"
    /\ (last.op = "enter" /\ last.frame.kind = "es") =>
         \A i \in DOMAIN cms :
           /\ cms[i].st = "entered"
           /\ cms[i].kind = "ev" => suppressFlag[cms[i].e]
           /\ cms[i].kind = "cb" => SelectorsOf(connected[cms[i].e], cms[i].f) = {}

\* C30 (SpecEvents): entering events.suppress() changes the flag of no event
\* outside the container; leaving it gives every event that the container
\* held at entry, also one deleted from it since, the flag of just before
\* entry, and changes the flag of no other event, also not of one
\* registered since.
C30_ScopeOfEntryOnly ==
    /\ (last.op = "enter" /\ last.frame.cm.kind = "evs") =>
         /\ DOMAIN last.frame.cm.olds = Range(events)
         /\ \A e \in Evts \ Range(events) : suppressFlag[e] = last.before.flag[e]
    /\ Left("evs") =>
         \A e \in Evts :
           suppressFlag[e] = IF e \in DOMAIN last.frame.cm.olds
                             THEN last.frame.pre.flag[e]
                             ELSE last.before.flag[e]
====
